---- MODULE Spec2Model ----
(***************************************************************************)
(* Model of bank.py: the statement builder (get_statements), the timeline  *)
(* extender (AccountStatement.extend_balances), the date range resolver    *)
(* (get_date_range), the period aggregator (aggregate) and the main        *)
(* program that chains them.                                               *)
(*                                                                         *)
(* A date is a day number: day 0 is Monday 01/01/2018, and                 *)
(* d + timedelta(days=1) is d + 1.  Amounts and balances are integers.     *)
(* The main program is modelled with one statement file (one reader).      *)
(***************************************************************************)
EXTENDS Integers, Sequences, FiniteSets, TLC

VARIABLES pc, reader, order, statements, start_date, end_date, i,
          aggregation, report, err

vars == <<pc, reader, order, statements, start_date, end_date, i,
          aggregation, report, err>>

(* ------------------------------ bounds -------------------------------- *)

\* Entries of the builder's input are dated 0..MaxDay.
MaxDay == 3
\* A reader yields at most MaxEntries entries.
MaxEntries == 2
\* Entries of the aggregation input are dated 0..MaxAggDay.
MaxAggDay == 7
\* A reader of the aggregation input yields at most MaxAggEntries entries.
MaxAggEntries == 2

(* ---------------------------- data model ------------------------------ *)

\* Python's None where a date or a balance is expected: a value that is no
\* date and no balance of the model.
None == 999999

\* No exception raised.
NoError == "none"

\* The Entry namedtuple.
Entry(date, amount, description, balance, account_name) ==
    [date |-> date, amount |-> amount, description |-> description,
     balance |-> balance, account_name |-> account_name]

\* SortOrder
SortOrder == {"asc", "desc"}

\* Account names, in the order str comparison gives them.
AccountNames == <<"acc 1", "acc 2">>

\* A dict from date to {"balance": .., "entries": [..]} with no key.
EmptyDays == [d \in {} |-> [balance |-> None, entries |-> <<>>]]

\* AccountStatement: a dict of days with a name.
AccountStatement(name, days) == [name |-> name, days |-> days]

\* dict item assignment: days[d] = rec
Put(days, d, rec) ==
    [x \in (DOMAIN days) \cup {d} |-> IF x = d THEN rec ELSE days[x]]

\* max(...) and min(...) of a non-empty set of integers
Max(S) == CHOOSE x \in S : \A y \in S : y <= x
Min(S) == CHOOSE x \in S : \A y \in S : x <= y

\* entries[::-1]
Reverse(s) == [k \in 1..Len(s) |-> s[Len(s) + 1 - k]]

(* --------------------------- get_statements --------------------------- *)

HasAccount(stmts, name) == \E k \in 1..Len(stmts) : stmts[k].name = name

IndexOf(stmts, name) == CHOOSE k \in 1..Len(stmts) : stmts[k].name = name

\* "Ensure entries are in ASCENDING date order": the list of the reader's
\* entries, reversed as a whole when the reader's order is descending.
WalkOrderNoReverse(entries, ord) == entries

WalkOrder(entries, ord) ==
    IF ord = "desc" THEN Reverse(entries) ELSE entries

\* The body of the loop for one entry on the day dict of its account: create
\* the day if it is missing, overwrite the balance, append the entry.
StoreEntryFirstWins(days, e) ==
    IF e.date \notin DOMAIN days
    THEN Put(days, e.date, [balance |-> e.balance, entries |-> <<e>>])
    ELSE Put(days, e.date, [balance |-> days[e.date].balance,
                            entries |-> Append(days[e.date].entries, e)])

StoreEntry(days, e) ==
    LET days1 == IF e.date \notin DOMAIN days
                 THEN Put(days, e.date, [balance |-> None, entries |-> <<>>])
                 ELSE days
    IN  Put(days1, e.date, [balance |-> e.balance,
                            entries |-> Append(days1[e.date].entries, e)])

\* The loop over the entries. L holds the locals: statements (insertion
\* ordered), start_dates and end_dates (keyed by account name).
RECURSIVE WalkEntries(_, _, _)
WalkEntries(entries, k, L) ==
    IF k > Len(entries) THEN L
    ELSE
      LET e     == entries[k]
          isNew == ~HasAccount(L.statements, e.account_name)
          stmts == IF isNew
                   THEN Append(L.statements,
                               AccountStatement(e.account_name, EmptyDays))
                   ELSE L.statements
          idx   == IndexOf(stmts, e.account_name)
          starts == IF isNew
                    THEN Put(L.start_dates, e.account_name, e.date)
                    ELSE L.start_dates
          stmts2 == [stmts EXCEPT ![idx].days = StoreEntry(stmts[idx].days, e)]
      IN  WalkEntries(entries, k + 1,
                      [statements  |-> stmts2,
                       start_dates |-> starts,
                       end_dates   |-> Put(L.end_dates, e.account_name, e.date)])

\* "Fill in missing days" for one account: walk d from its start date to its
\* end date.
RECURSIVE FillMissingDays(_, _, _, _)
FillNothing(days, d, end, prev_balance) == days

RECURSIVE FillForgetsBalance(_, _, _, _)
FillForgetsBalance(days, d, end, prev_balance) ==
    IF d > end THEN days
    ELSE IF d \in DOMAIN days
         THEN FillForgetsBalance(days, d + 1, end, prev_balance)
         ELSE FillForgetsBalance(
                  Put(days, d, [balance |-> prev_balance, entries |-> <<>>]),
                  d + 1, end, prev_balance)

RECURSIVE FillRange(_, _, _, _)
FillRange(days, d, end, prev_balance) ==
    IF d > end THEN days
    ELSE IF d \in DOMAIN days
         THEN FillRange(days, d + 1, end, days[d].balance)
         ELSE FillRange(
                  Put(days, d, [balance |-> prev_balance, entries |-> <<>>]),
                  d + 1, end, prev_balance)

FillEitherWay(days, d, end, prev_balance) ==
    IF d <= end
    THEN FillRange(days, d, end, prev_balance)
    ELSE FillRange(days, end, d, prev_balance)

FillMissingDays(days, d, end, prev_balance) ==
    IF d > end THEN days
    ELSE IF d \in DOMAIN days
         THEN FillMissingDays(days, d + 1, end, days[d].balance)
         ELSE FillMissingDays(
                  Put(days, d, [balance |-> prev_balance, entries |-> <<>>]),
                  d + 1, end, prev_balance)

get_statements(reader_entries, ord) ==
    LET entries == WalkOrder(reader_entries, ord)
        L == WalkEntries(entries, 1,
                 [statements  |-> <<>>,
                  start_dates |-> [n \in {} |-> 0],
                  end_dates   |-> [n \in {} |-> 0]])
    IN  [k \in 1..Len(L.statements) |->
            LET acc_name == L.statements[k].name
            IN  AccountStatement(acc_name,
                    FillMissingDays(L.statements[k].days,
                                    L.start_dates[acc_name],
                                    L.end_dates[acc_name], None))]

(* -------------------------- extend_balances --------------------------- *)

RECURSIVE ExtendLoop(_, _, _, _)
ExtendLoop(days, d, end_date_, last_balance) ==
    IF d <= end_date_
    THEN ExtendLoop(Put(days, d, [balance |-> last_balance, entries |-> <<>>]),
                    d + 1, end_date_, last_balance)
    ELSE days

\* AccountStatement.extend_balances(end_date) on a non-empty statement; on an
\* empty one max() raises ValueError (see ExtendRaises).
extend_balances_exclusive(acc_st, end_date_) ==
    LET last_date    == Max(DOMAIN acc_st.days)
        last_balance == acc_st.days[last_date].balance
    IN  AccountStatement(acc_st.name,
            ExtendLoop(acc_st.days, last_date + 1, end_date_ - 1, last_balance))

extend_balances_noop(acc_st, end_date_) == acc_st

extend_balances(acc_st, end_date_) ==
    LET last_date    == Max(DOMAIN acc_st.days)
        last_balance == acc_st.days[last_date].balance
    IN  AccountStatement(acc_st.name,
            ExtendLoop(acc_st.days, last_date + 1, end_date_, last_balance))

ExtendRaises(acc_st) == DOMAIN acc_st.days = {}

\* A call acc_st.extend_balances(end_date): the statement as the call leaves
\* it, and the exception raised, if any. max(self.keys()) raises ValueError
\* on a statement with no day, before anything is inserted.
extend_balances_call_empty_ok(acc_st, end_date_) ==
    IF ExtendRaises(acc_st)
    THEN [raised |-> NoError, value |-> acc_st]
    ELSE [raised |-> NoError, value |-> extend_balances(acc_st, end_date_)]

extend_balances_call(acc_st, end_date_) ==
    IF ExtendRaises(acc_st)
    THEN [raised |-> "ValueError", value |-> acc_st]
    ELSE [raised |-> NoError, value |-> extend_balances(acc_st, end_date_)]

(* --------------------------- get_date_range --------------------------- *)

\* get_date_range(statements): the tuple returned, or the exception raised.
\* max() of an empty list raises ValueError, so the call raises when
\* statements is empty; min()/max() of the keys of a statement with no day
\* raise ValueError too.
DateRangeRaised(stmts) ==
    [raised |-> "ValueError", value |-> <<None, None>>]

DateRangeReturned(stmts) ==
    [raised |-> NoError,
     value  |-> <<Max({Min(DOMAIN stmts[k].days) : k \in 1..Len(stmts)}),
                  Max({Max(DOMAIN stmts[k].days) : k \in 1..Len(stmts)})>>]

get_date_range_min_of_min(stmts) ==
    IF \E k \in 1..Len(stmts) : DOMAIN stmts[k].days = {}
    THEN DateRangeRaised(stmts)
    ELSE IF Len(stmts) = 0
    THEN DateRangeRaised(stmts)
    ELSE [raised |-> NoError,
          value  |-> <<Min({Min(DOMAIN stmts[k].days) : k \in 1..Len(stmts)}),
                       Max({Max(DOMAIN stmts[k].days) : k \in 1..Len(stmts)})>>]

get_date_range_empty_ok(stmts) ==
    IF \E k \in 1..Len(stmts) : DOMAIN stmts[k].days = {}
    THEN DateRangeRaised(stmts)
    ELSE IF Len(stmts) = 0
    THEN [raised |-> NoError, value |-> <<None, None>>]
    ELSE DateRangeReturned(stmts)

get_date_range(stmts) ==
    IF \E k \in 1..Len(stmts) : DOMAIN stmts[k].days = {}
    THEN DateRangeRaised(stmts)
    ELSE IF Len(stmts) = 0
    THEN DateRangeRaised(stmts)
    ELSE DateRangeReturned(stmts)

(* ------------------------------ aggregate ----------------------------- *)

\* datetime.weekday(): 0 is Monday; day 0 of the model is a Monday.
DaysPerWeek == 7
weekday(dt) == dt % DaysPerWeek

is_week_start(dt) == weekday(dt) = 0

\* day.strftime("%d/%m/%y") for the days of January and February 2018:
\* <<day of month, month, two-digit year>>.
strftime(day) ==
    IF day < 31 THEN <<day + 1, 1, 18>> ELSE <<day - 30, 2, 18>>

\* "Backtrack from start date to find start of period"
RECURSIVE Backtrack(_)
Backtrack(day) == IF is_week_start(day) THEN day ELSE Backtrack(day - 1)

\* cat = "spending"  (the category does not depend on the description)
Category(e) == "spending"

\* "£{:.2f}: {}".format(-e.amount, e.description): the magnitude and the
\* description, in this order.
Transaction(e) == <<"£", 0 - e.amount, ": ", e.description>>

\* The body of the innermost loop: one entry added to the open period.
AddEntryAnySign(period, e) ==
    LET cat == Category(e)
        bd  == IF cat \notin DOMAIN period.breakdown
               THEN Put(period.breakdown, cat,
                        [total |-> 0, transactions |-> <<>>])
               ELSE period.breakdown
    IN  [period EXCEPT !.breakdown =
            Put(bd, cat,
                [total        |-> bd[cat].total - e.amount,
                 transactions |-> Append(bd[cat].transactions,
                                         Transaction(e))])]

AddEntry(period, e) ==
    LET cat == Category(e)
        bd  == IF cat \notin DOMAIN period.breakdown
               THEN Put(period.breakdown, cat,
                        [total |-> 0, transactions |-> <<>>])
               ELSE period.breakdown
    IN  IF e.amount < 0
        THEN [period EXCEPT !.breakdown =
                 Put(bd, cat,
                     [total        |-> bd[cat].total - e.amount,
                      transactions |-> Append(bd[cat].transactions,
                                              Transaction(e))])]
        ELSE [period EXCEPT !.breakdown = bd]

\* for e in acc_st[day]["entries"]
RECURSIVE AddEntries(_, _, _)
AddEntries(period, entries, k) ==
    IF k > Len(entries) THEN period
    ELSE AddEntries(AddEntry(period, entries[k]), entries, k + 1)

\* for acc_st in statements: if day in acc_st: ...
RECURSIVE AddDay(_, _, _, _)
AddDay(period, stmts, k, day) ==
    IF k > Len(stmts) THEN period
    ELSE IF day \in DOMAIN stmts[k].days
         THEN AddDay(AddEntries(period, stmts[k].days[day].entries, 1),
                     stmts, k + 1, day)
         ELSE AddDay(period, stmts, k + 1, day)

NoBreakdown == [c \in {} |-> [total |-> 0, transactions |-> <<>>]]

\* period = None: no period is open (a value that is no period, as no day
\* formats to <<0, 0, 0>>).
NoPeriod == [start |-> <<0, 0, 0>>, breakdown |-> NoBreakdown]

\* while day <= end_date: A holds the locals aggregation and period.
RECURSIVE AggregateLoop(_, _, _, _)
AggregateLoop(stmts, day, end_date_, A) ==
    IF day > end_date_ THEN A
    ELSE
      LET opened == is_week_start(day)
          agg1   == IF opened /\ A.period # NoPeriod
                    THEN Append(A.aggregation, A.period)
                    ELSE A.aggregation
          per1   == IF opened
                    THEN [start |-> strftime(day), breakdown |-> NoBreakdown]
                    ELSE A.period
      IN  AggregateLoop(stmts, day + 1, end_date_,
              [aggregation |-> agg1, period |-> AddDay(per1, stmts, 1, day)])

\* aggregate(statements, is_week_start, start_date, end_date)
aggregate(stmts, start_date_, end_date_) ==
    LET A == AggregateLoop(stmts, Backtrack(start_date_), end_date_,
                           [aggregation |-> <<>>, period |-> NoPeriod])
    IN  Append(A.aggregation, A.period)

(* ------------------------- the balance report ------------------------- *)

\* str comparison of account names
NameRank(name) == CHOOSE k \in 1..Len(AccountNames) : AccountNames[k] = name

\* list.sort(key=attrgetter("name")): a stable sort by name
RECURSIVE SortByName(_)
InsertByName(sorted, x) ==
    LET before == SelectSeq(sorted,
                      LAMBDA y : NameRank(y.name) <= NameRank(x.name))
        after  == SelectSeq(sorted,
                      LAMBDA y : NameRank(y.name) > NameRank(x.name))
    IN  before \o <<x>> \o after
SortByName(stmts) ==
    IF Len(stmts) = 0 THEN <<>>
    ELSE InsertByName(SortByName(SubSeq(stmts, 1, Len(stmts) - 1)),
                      stmts[Len(stmts)])

\* sum(todays_balances)
RECURSIVE Sum(_)
Sum(s) == IF Len(s) = 0 THEN 0 ELSE s[1] + Sum(Tail(s))

\* The rows of the balance report for the days d..end_date, after the rows
\* already printed; R holds the rows and the exception raised, if any:
\* acc_st[d] raises KeyError on a missing day, sum() raises TypeError on None.
RECURSIVE ReportRows(_, _, _, _)
ReportRows(stmts, d, end_date_, R) ==
    IF d > end_date_ THEN R
    ELSE IF \E k \in 1..Len(stmts) : d \notin DOMAIN stmts[k].days
         THEN [R EXCEPT !.err = "KeyError"]
         ELSE
           LET todays_balances ==
                   [k \in 1..Len(stmts) |-> stmts[k].days[d].balance]
           IN  IF \E k \in 1..Len(stmts) : todays_balances[k] = None
               THEN [R EXCEPT !.err = "TypeError"]
               ELSE ReportRows(stmts, d + 1, end_date_,
                        [R EXCEPT !.rows = Append(@,
                            [date     |-> d,
                             balances |-> todays_balances,
                             total    |-> Sum(todays_balances)])])

(* --------------------------- the main program ------------------------- *)

Amounts == {-2, 0, 3}
Balances == {100, 120}
Plain == <<"d">>
Transfer == <<"T", "f", "r">>

\* The entries a reader of the balance input may yield.
BuildEntries ==
    {Entry(d, -1, Plain, b, AccountNames[a]) :
        d \in 0..MaxDay, b \in Balances, a \in 1..Len(AccountNames)}

\* The entries a reader of the spending input may yield.
AggEntries ==
    {Entry(d, m, Plain, 0, AccountNames[a]) :
        d \in 0..MaxAggDay, m \in Amounts, a \in 1..Len(AccountNames)}

\* The entries a reader of the categorised spending input may yield.
CatEntries ==
    {Entry(d[1], d[2], d[3], 0, AccountNames[a]) :
        d \in (0..MaxDay) \X Amounts \X {Plain, Transfer},
        a \in 1..Len(AccountNames)}

SeqsUpTo(S, n) == UNION {[1..k -> S] : k \in 0..n}

InitWith(readers) ==
    /\ pc = "read"
    /\ reader \in readers
    /\ order \in SortOrder
    /\ statements = <<>>
    /\ start_date = None
    /\ end_date = None
    /\ i = 0
    /\ aggregation = <<>>
    /\ report = <<>>
    /\ err = NoError

Init == InitWith(SeqsUpTo(BuildEntries, MaxEntries))

InitAgg == InitWith(SeqsUpTo(AggEntries, MaxAggEntries))

InitCat == InitWith(SeqsUpTo(CatEntries, MaxEntries))

\* statements += get_statements(reader)
ReadStatements ==
    /\ pc = "read"
    /\ statements' = statements \o get_statements(reader, order)
    /\ pc' = "range"
    /\ UNCHANGED <<reader, order, start_date, end_date, i, aggregation,
                   report, err>>

\* start_date, end_date = get_date_range(statements)
GetDateRange ==
    /\ pc = "range"
    /\ LET r == get_date_range(statements)
       IN  IF r.raised # NoError
           THEN /\ err' = r.raised
                /\ pc' = "failed"
                /\ UNCHANGED <<start_date, end_date, i>>
           ELSE /\ start_date' = r.value[1]
                /\ end_date' = r.value[2]
                /\ i' = 1
                /\ pc' = "extend"
                /\ err' = err
    /\ UNCHANGED <<reader, order, statements, aggregation, report>>

\* for acc_st in statements: acc_st.extend_balances(end_date)
ExtendBalances ==
    /\ pc = "extend"
    /\ i <= Len(statements)
    /\ IF ExtendRaises(statements[i])
       THEN /\ err' = "ValueError"
            /\ pc' = "failed"
            /\ UNCHANGED <<statements, i>>
       ELSE /\ statements' = [statements EXCEPT
                                 ![i] = extend_balances(@, end_date)]
            /\ i' = i + 1
            /\ UNCHANGED <<pc, err>>
    /\ UNCHANGED <<reader, order, start_date, end_date, aggregation, report>>

\* spending_report: aggregate(statements, is_week_start, start_date, end_date)
SpendingReport ==
    /\ pc = "extend"
    /\ i > Len(statements)
    /\ aggregation' = aggregate(statements, start_date, end_date)
    /\ pc' = "aggregated"
    /\ UNCHANGED <<reader, order, statements, start_date, end_date, i,
                   report, err>>

\* otherwise: sort the statements by name and print one row per day
BalanceReport ==
    /\ pc = "extend"
    /\ i > Len(statements)
    /\ statements' = SortByName(statements)
    /\ LET R == ReportRows(statements', start_date, end_date,
                           [rows |-> <<>>, err |-> NoError])
       IN  /\ report' = R.rows
           /\ err' = R.err
           /\ pc' = IF R.err = NoError THEN "reported" ELSE "failed"
    /\ UNCHANGED <<reader, order, start_date, end_date, i, aggregation>>

Next ==
    \/ ReadStatements
    \/ GetDateRange
    \/ ExtendBalances
    \/ SpendingReport
    \/ BalanceReport

Spec == Init /\ [][Next]_vars

SpecAgg == InitAgg /\ [][Next]_vars

SpecCat == InitCat /\ [][Next]_vars

(* ======================= properties of the code ====================== *)

\* The entries in the order get_statements walks them: file order, or its
\* exact reverse when the declared order is descending.
Walk ==
    [k \in 1..Len(reader) |->
        IF order = "desc" THEN reader[Len(reader) + 1 - k] ELSE reader[k]]

\* Per account, the walk is in ascending (non-strict) date order.
PerAccountAscending ==
    \A j, k \in 1..Len(reader) :
        (j < k /\ Walk[j].account_name = Walk[k].account_name)
            => Walk[j].date <= Walk[k].date

\* d is the least / the greatest key of a timeline.
IsMinDay(t, d) == d \in DOMAIN t.days /\ \A x \in DOMAIN t.days : d <= x
IsMaxDay(t, d) == d \in DOMAIN t.days /\ \A x \in DOMAIN t.days : x <= d

HasEntries(t, d) == t.days[d].entries # <<>>

\* C1: when the walk is per account in ascending date order, the keys of
\* every timeline built by get_statements are exactly the days from its
\* minimum to its maximum day: their number is (max - min) + 1 and no day
\* in between is missing.
C1_Contiguous ==
    (pc # "read" /\ PerAccountAscending) =>
        \A k \in 1..Len(statements) :
            \E lo, hi \in DOMAIN statements[k].days :
                /\ IsMinDay(statements[k], lo)
                /\ IsMaxDay(statements[k], hi)
                /\ Cardinality(DOMAIN statements[k].days) = (hi - lo) + 1
                /\ \A d \in lo..hi : d \in DOMAIN statements[k].days

\* get_statements has returned timelines for an ascending walk, one of which
\* got a missing day filled in between two days with entries.
C1_Witness ==
    /\ pc = "range"
    /\ PerAccountAscending
    /\ \E k \in 1..Len(statements) :
           \E d \in DOMAIN statements[k].days :
               /\ ~HasEntries(statements[k], d)
               /\ \E x \in DOMAIN statements[k].days :
                      x > d /\ HasEntries(statements[k], x)

\* C2: carry-forward law. In every timeline, as returned by get_statements
\* and after extend_balances, a day without entries has the balance of the
\* nearest preceding day of that timeline that has entries, and that balance
\* is not None.
C2_CarryForward ==
    \A k \in 1..Len(statements) :
        \A d \in DOMAIN statements[k].days :
            ~HasEntries(statements[k], d) =>
                /\ statements[k].days[d].balance # None
                /\ \E p \in DOMAIN statements[k].days :
                       /\ p < d
                       /\ HasEntries(statements[k], p)
                       /\ \A q \in DOMAIN statements[k].days :
                              (p < q /\ q < d) => ~HasEntries(statements[k], q)
                       /\ statements[k].days[d].balance
                              = statements[k].days[p].balance

\* Every statement has been extended, and one timeline got at least two
\* trailing days without entries from extend_balances.
C2_Witness ==
    /\ pc = "extend"
    /\ i > Len(statements)
    /\ \E k \in 1..Len(statements) :
           \E hi \in DOMAIN statements[k].days :
               /\ IsMaxDay(statements[k], hi)
               /\ ~HasEntries(statements[k], hi)
               /\ (hi - 1) \in DOMAIN statements[k].days
               /\ ~HasEntries(statements[k], hi - 1)

\* The entries of account a dated d, as a subsequence of s.
EntriesOn(s, a, d) ==
    SelectSeq(s, LAMBDA e : e.account_name = a /\ e.date = d)

\* The timeline named a.
TimelineOf(a) ==
    statements[CHOOSE k \in 1..Len(statements) : statements[k].name = a]

\* C3: same-day tie-break. For every account and day with at least one
\* entry, the day's entry list is that day's entries in walk order and the
\* day's balance is the balance of the one walked last; when the declared
\* order is descending that is the entry that comes first in file order.
C3_SameDayTieBreak ==
    pc # "read" =>
        \A n \in 1..Len(reader) :
            LET a    == reader[n].account_name
                d    == reader[n].date
                sel  == EntriesOn(Walk, a, d)
                file == EntriesOn(reader, a, d)
            IN  /\ \E k \in 1..Len(statements) : statements[k].name = a
                /\ d \in DOMAIN TimelineOf(a).days
                /\ TimelineOf(a).days[d].entries = sel
                /\ TimelineOf(a).days[d].balance = sel[Len(sel)].balance
                /\ order = "desc" =>
                       TimelineOf(a).days[d].balance = file[1].balance

\* get_statements has returned for a descending reader with two entries of
\* one account on one day whose balances differ.
C3_Witness ==
    /\ pc = "range"
    /\ order = "desc"
    /\ \E m, n \in 1..Len(reader) :
           /\ m < n
           /\ reader[m].account_name = reader[n].account_name
           /\ reader[m].date = reader[n].date
           /\ reader[m].balance # reader[n].balance

\* C4: for a non-empty collection of non-empty timelines get_date_range
\* returns the greatest of the timelines' minimum days and the greatest of
\* their maximum days, and leaves the timelines as get_statements built them.
C4_DateRange ==
    (pc = "extend" /\ i = 1) =>
        /\ \E k \in 1..Len(statements) : IsMinDay(statements[k], start_date)
        /\ \A k \in 1..Len(statements) :
               \E m \in DOMAIN statements[k].days :
                   IsMinDay(statements[k], m) /\ m <= start_date
        /\ \E k \in 1..Len(statements) : IsMaxDay(statements[k], end_date)
        /\ \A k \in 1..Len(statements) :
               \E m \in DOMAIN statements[k].days :
                   IsMaxDay(statements[k], m) /\ m <= end_date
        /\ statements = get_statements(reader, order)

\* get_date_range has returned for two timelines whose minimum days differ
\* and whose maximum days differ.
C4_Witness ==
    /\ pc = "extend"
    /\ i = 1
    /\ Len(statements) = 2
    /\ ~IsMinDay(statements[1], start_date) \/ ~IsMinDay(statements[2], start_date)
    /\ ~IsMaxDay(statements[1], end_date) \/ ~IsMaxDay(statements[2], end_date)

\* The targets extend_balances is tried with: days before, within and after
\* the days of the input.
ExtendTargets == 0..(MaxDay + 2)

\* extend_balances(target) on timeline t with greatest day M gives x: the
\* days of x are those of t and the days d with M < d <= target, the new
\* days have the balance of M and no entries, the days of t are as they
\* were, and extending x again to the same target changes nothing.
ExtendsTo(t, target, x) ==
    \E M \in DOMAIN t.days :
        /\ IsMaxDay(t, M)
        /\ x.name = t.name
        /\ DOMAIN x.days = DOMAIN t.days \cup ((M + 1)..target)
        /\ \A d \in DOMAIN x.days \ DOMAIN t.days :
               x.days[d] = [balance |-> t.days[M].balance, entries |-> <<>>]
        /\ \A d \in DOMAIN t.days : x.days[d] = t.days[d]
        /\ (target <= M) => x = t

\* C5: extend_balances(target_end_day) on a non-empty timeline with greatest
\* day M adds exactly the days M < d <= target_end_day, each with the balance
\* recorded at M and no entries, and leaves every other day as it was; with
\* a target not after M nothing changes; extending twice to the same target
\* gives what extending once gives. It holds of every call the main program
\* makes (statements 1..i-1 are extended to end_date) and of a call with any
\* target on any timeline the program holds.
C5_ExtendBalances ==
    /\ pc = "extend" =>
           \A k \in 1..Len(statements) :
               IF k < i
               THEN ExtendsTo(get_statements(reader, order)[k], end_date,
                              statements[k])
               ELSE statements[k] = get_statements(reader, order)[k]
    /\ \A k \in 1..Len(statements) :
           \A target \in ExtendTargets :
               /\ ExtendsTo(statements[k], target,
                            extend_balances(statements[k], target))
               /\ extend_balances(extend_balances(statements[k], target),
                                  target)
                      = extend_balances(statements[k], target)

\* The main program has extended a timeline by at least two days.
C5_Witness ==
    /\ pc = "extend"
    /\ i > 1
    /\ LET t0 == get_statements(reader, order)[i - 1]
       IN  \E M \in DOMAIN t0.days :
               /\ IsMaxDay(t0, M)
               /\ M + 2 <= end_date
               /\ end_date \in DOMAIN statements[i - 1].days

\* Every statement has been extended to end_date.
AllExtended == pc \in {"extend", "reported", "aggregated"} /\ i > Len(statements)

\* Every timeline ends on end_date and has a balance that is not None for
\* every day from start_date to end_date; the balance report, once printed,
\* has one row per day from start_date to end_date whose total is the sum of
\* the accounts' balances of that day, and printing it raises nothing.
Coverage ==
    /\ AllExtended =>
           \A k \in 1..Len(statements) :
               /\ IsMaxDay(statements[k], end_date)
               /\ \A d \in start_date..end_date :
                      /\ d \in DOMAIN statements[k].days
                      /\ statements[k].days[d].balance # None
    /\ err \notin {"KeyError", "TypeError"}
    /\ pc = "reported" =>
           /\ Len(report) = (end_date - start_date) + 1
           /\ \A n \in 1..Len(report) :
                  /\ report[n].date = start_date + (n - 1)
                  /\ Len(report[n].balances) = Len(statements)
                  /\ \A k \in 1..Len(statements) :
                         report[n].balances[k]
                             = statements[k].days[report[n].date].balance
                  /\ report[n].total = Sum(report[n].balances)

\* C8 as stated: for the timelines of get_statements (of any entry stream),
\* after get_date_range and extend_balances on every timeline, every timeline
\* ends on end_day and has a balance for every day from start_day to end_day,
\* so every row of the balance report has its total.
C8_AsStated == Coverage

\* C8, amended: the same, for every entry stream whose walk is per account
\* in ascending date order.
C8_Coverage == PerAccountAscending => Coverage

\* The balance report is printed for two accounts of an ascending walk, one
\* of which was extended to end_date.
C8_Witness ==
    /\ pc = "reported"
    /\ PerAccountAscending
    /\ Len(statements) = 2
    /\ Len(report) >= 1
    /\ \E k \in 1..Len(statements) : ~HasEntries(statements[k], end_date)

\* C10 as stated: get_date_range on no timeline fails with EmptyInputError
\* and sets no (start_day, end_day).
C10_AsStated ==
    (pc \notin {"read", "range"} /\ Len(statements) = 0) =>
        /\ pc = "failed"
        /\ err = "EmptyInputError"
        /\ start_date = None /\ end_date = None

\* C10, amended: get_date_range on no timeline fails with ValueError (the
\* error max() raises on an empty list) and sets no (start_day, end_day);
\* the program stops there.
C10_EmptyRaises ==
    (pc \notin {"read", "range"} /\ Len(statements) = 0) =>
        /\ pc = "failed"
        /\ err = "ValueError"
        /\ start_date = None /\ end_date = None
        /\ aggregation = <<>> /\ report = <<>>

\* get_date_range was called on no timeline.
C10_Witness == pc = "failed" /\ Len(statements) = 0 /\ reader = <<>>

(* ----------------------- the spending report -------------------------- *)

\* The nearest period start at or before start_date.
BacktrackedStart ==
    CHOOSE p \in (start_date - (DaysPerWeek - 1))..start_date :
        p % DaysPerWeek = 0

\* The period starts from the backtracked start to end_date.
PeriodStarts ==
    {p \in BacktrackedStart..end_date : p % DaysPerWeek = 0}

\* The places <<timeline, day, index>> of the entries the timelines hold
\* for the days lo..hi.
Places(lo, hi) ==
    UNION {{<<k, d, j>> : j \in 1..Len(statements[k].days[d].entries)} :
              <<k, d>> \in {x \in (1..Len(statements)) \X (lo..hi) :
                               x[2] \in DOMAIN statements[x[1]].days}}

EntryAt(p) == statements[p[1]].days[p[2]].entries[p[3]]

\* An outflow that the aggregator does not classify as ignored.
Qualifies(e) == e.amount < 0 /\ Category(e) # "ignored"

QualifyingPlaces(lo, hi) == {p \in Places(lo, hi) : Qualifies(EntryAt(p))}

\* The sum of -amount over the entries at the places S.
RECURSIVE SumOfMagnitudes(_)
SumOfMagnitudes(S) ==
    IF S = {} THEN 0
    ELSE LET p == CHOOSE x \in S : TRUE
         IN  (0 - EntryAt(p).amount) + SumOfMagnitudes(S \ {p})

\* The sum of the totals, and the number of transactions, of the category
\* cat over the buckets n..Len(aggregation).
RECURSIVE SumOfTotals(_, _)
SumOfTotals(cat, n) ==
    IF n > Len(aggregation) THEN 0
    ELSE (IF cat \in DOMAIN aggregation[n].breakdown
          THEN aggregation[n].breakdown[cat].total ELSE 0)
         + SumOfTotals(cat, n + 1)

RECURSIVE CountTransactions(_, _)
CountTransactions(cat, n) ==
    IF n > Len(aggregation) THEN 0
    ELSE (IF cat \in DOMAIN aggregation[n].breakdown
          THEN Len(aggregation[n].breakdown[cat].transactions) ELSE 0)
         + CountTransactions(cat, n + 1)

\* The buckets' spending totals add up to the sum of -amount over the
\* qualifying entries dated lo..hi, and only these entries are in a total or
\* a transaction list: there are as many transactions as qualifying entries,
\* each of a positive magnitude.
SpendingIsOutflows(lo, hi) ==
    /\ SumOfTotals("spending", 1) = SumOfMagnitudes(QualifyingPlaces(lo, hi))
    /\ CountTransactions("spending", 1) = Cardinality(QualifyingPlaces(lo, hi))
    /\ \A n \in 1..Len(aggregation) :
           \A cat \in DOMAIN aggregation[n].breakdown :
               /\ cat = "spending"
               /\ \A j \in 1..Len(aggregation[n].breakdown[cat].transactions) :
                      aggregation[n].breakdown[cat].transactions[j][2] > 0

PeriodDays(n) ==
    {d \in BacktrackedStart..end_date :
        /\ BacktrackedStart + (n - 1) * DaysPerWeek <= d
        /\ d < BacktrackedStart + n * DaysPerWeek}

\* aggregate returns one bucket per period start from the backtracked start
\* to range_end, in ascending period order.
OneBucketPerPeriod ==
    pc = "aggregated" =>
        /\ Len(aggregation) = Cardinality(PeriodStarts)
        /\ \A n \in 1..Len(aggregation) :
               /\ BacktrackedStart + (n - 1) * DaysPerWeek \in PeriodStarts
               /\ aggregation[n].start
                      = strftime(BacktrackedStart + (n - 1) * DaysPerWeek)

\* C7: aggregate returns exactly one bucket for each period start from the
\* backtracked start to range_end, in ascending period order, and a bucket
\* whose period holds no outflow, non-ignored entry has an empty breakdown.
C7_AsStated ==
    /\ OneBucketPerPeriod
    /\ pc = "aggregated" =>
           \A n \in 1..Len(aggregation) :
               (\A p \in Places(BacktrackedStart, end_date) :
                    p[2] \in PeriodDays(n) => ~Qualifies(EntryAt(p)))
                   => DOMAIN aggregation[n].breakdown = {}

(* ---- the Category Mapper of the specification (it is not in bank.py) -- *)

\* str.lower() on the letters of the descriptions of the model
LowerChar(c) ==
    CASE c = "T" -> "t" [] c = "F" -> "f" [] c = "D" -> "d" [] OTHER -> c

Lower(str) == [k \in 1..Len(str) |-> LowerChar(str[k])]

\* keyword is a substring of description, letter case apart
Contains(description, keyword) ==
    \E k \in 0..(Len(description) - Len(keyword)) :
        SubSeq(Lower(description), k + 1, k + Len(keyword)) = Lower(keyword)

IgnoreKeywords == {<<"t", "f", "r">>}

\* The category mappings, in declaration order.
Mappings ==
    <<[category |-> "food", keywords |-> {<<"D">>}],
      [category |-> "fuel", keywords |-> {<<"f">>, <<"d">>}]>>

Matches(description, n) ==
    \E kw \in Mappings[n].keywords : Contains(description, kw)

categorize(description) ==
    IF \E kw \in IgnoreKeywords : Contains(description, kw)
    THEN "ignored"
    ELSE IF \E n \in 1..Len(Mappings) : Matches(description, n)
    THEN Mappings[CHOOSE n \in 1..Len(Mappings) :
                      /\ Matches(description, n)
                      /\ \A m \in 1..(n - 1) : ~Matches(description, m)].category
    ELSE "uncategorised"

\* The transactions listed under category cat in the n-th bucket.
TransactionsOf(n, cat) ==
    IF cat \in DOMAIN aggregation[n].breakdown
    THEN {aggregation[n].breakdown[cat].transactions[j] :
             j \in 1..Len(aggregation[n].breakdown[cat].transactions)}
    ELSE {}

\* C9: an entry whose description contains an ignore keyword (letter case
\* apart) is classified "ignored" whatever the mappings, and is in no
\* category total or transaction list of aggregate; any other outflow is
\* listed under the first category in declaration order with a keyword its
\* description contains, or under "uncategorised".
C9_AsStated ==
    pc = "aggregated" =>
        \A n \in 1..Len(aggregation) :
            \A p \in Places(BacktrackedStart, end_date) :
                (p[2] \in PeriodDays(n) /\ EntryAt(p).amount < 0) =>
                    LET e == EntryAt(p)
                    IN  IF categorize(e.description) = "ignored"
                        THEN \A cat \in DOMAIN aggregation[n].breakdown :
                                 Transaction(e) \notin TransactionsOf(n, cat)
                        ELSE Transaction(e)
                                 \in TransactionsOf(n, categorize(e.description))

(* ------------- extend_balances called on a statement built by hand ---- *)

\* The day dicts a caller may build: any set of the days 0..MaxDay, each
\* with a balance and no entries (as test_extend_balances does), the dict
\* with no day included (AccountStatement(name)).
HandBuiltDays ==
    UNION {[S -> {[balance |-> b, entries |-> <<>>] : b \in Balances}] :
              S \in SUBSET (0..MaxDay)}

\* acc_st = AccountStatement(name, {...}), about to call
\* acc_st.extend_balances(end_date)
InitExt ==
    /\ pc = "call"
    /\ reader = <<>>
    /\ order = "asc"
    /\ statements \in {<<AccountStatement(AccountNames[a], days)>> :
                          a \in 1..Len(AccountNames), days \in HandBuiltDays}
    /\ start_date = None
    /\ end_date \in ExtendTargets
    /\ i = 1
    /\ aggregation = <<>>
    /\ report = <<>>
    /\ err = NoError

\* acc_st.extend_balances(end_date)
ExtendCall ==
    /\ pc = "call"
    /\ LET r == extend_balances_call(statements[1], end_date)
       IN  /\ statements' = <<r.value>>
           /\ err' = r.raised
           /\ pc' = IF r.raised = NoError THEN "returned" ELSE "failed"
    /\ UNCHANGED <<reader, order, start_date, end_date, i, aggregation,
                   report>>

NextExt == ExtendCall

SpecExt == InitExt /\ [][NextExt]_vars

\* C11 as stated: extend_balances on a timeline with no day fails with
\* InvalidRangeError for every target_end_day, and the timeline still has no
\* day afterwards.
C11_AsStated ==
    pc # "call" =>
        /\ (pc = "failed") = (DOMAIN statements[1].days = {})
        /\ pc = "failed" => err = "InvalidRangeError"

\* C11, amended: extend_balances on a timeline with no day fails with
\* ValueError (the error max() raises on no keys) for every target_end_day,
\* and the timeline still has no day afterwards; on a timeline with a day it
\* raises nothing.
C11_EmptyRaises ==
    pc # "call" =>
        /\ (pc = "failed") = (DOMAIN statements[1].days = {})
        /\ pc = "failed" => err = "ValueError"
        /\ pc # "failed" => err = NoError

\* extend_balances was called on a timeline with no day, with a target after
\* day 0.
C11_Witness ==
    /\ pc = "failed"
    /\ DOMAIN statements[1].days = {}
    /\ end_date > 0

(* ------------------ get_statements on any entry sequence -------------- *)

\* The account names of the input.
AccountsRead == {reader[n].account_name : n \in 1..Len(reader)}

\* The places <<timeline, day, index>> of all the entries the timelines hold.
AllPlaces ==
    UNION {{<<k, d, j>> : j \in 1..Len(statements[k].days[d].entries)} :
              <<k, d>> \in {x \in (1..Len(statements)) \X (0..MaxDay) :
                               x[2] \in DOMAIN statements[x[1]].days}}

\* The first and the last position of account a in the walk.
FirstWalked(a) ==
    CHOOSE n \in 1..Len(reader) :
        /\ Walk[n].account_name = a
        /\ \A m \in 1..(n - 1) : Walk[m].account_name # a
LastWalked(a) ==
    CHOOSE n \in 1..Len(reader) :
        /\ Walk[n].account_name = a
        /\ \A m \in (n + 1)..Len(reader) : Walk[m].account_name # a

\* The last day walked of account a precedes its first day walked.
Inverted(a) == Walk[LastWalked(a)].date < Walk[FirstWalked(a)].date

\* The days on which account a has an entry.
DaysRead(a) ==
    {reader[n].date : n \in {m \in 1..Len(reader) : reader[m].account_name = a}}

\* C12: for every entry sequence and either declared order, ascending per
\* account or not, get_statements returns without an error exactly one
\* timeline per distinct account name; every input entry is in the timelines
\* exactly once, in the timeline of its account under its date; and for an
\* account whose last day walked precedes its first day walked the gap-fill
\* inserts no day: the timeline has the days of the account's entries and no
\* other, whether or not they are a contiguous run.
C12_AnySequence ==
    pc = "range" =>
        /\ err = NoError
        /\ Len(statements) = Cardinality(AccountsRead)
        /\ \A a \in AccountsRead :
               Cardinality({k \in 1..Len(statements) : statements[k].name = a})
                   = 1
        /\ \A p \in AllPlaces :
               /\ \E n \in 1..Len(reader) : reader[n] = EntryAt(p)
               /\ EntryAt(p).account_name = statements[p[1]].name
               /\ EntryAt(p).date = p[2]
        /\ \A n \in 1..Len(reader) :
               Cardinality({p \in AllPlaces : EntryAt(p) = reader[n]})
                   = Cardinality({m \in 1..Len(reader) : reader[m] = reader[n]})
        /\ \A a \in AccountsRead :
               Inverted(a) => DOMAIN TimelineOf(a).days = DaysRead(a)

\* get_statements has returned for a walk in which an account's last day
\* precedes its first day by more than one day: the days in between are
\* missing from its timeline.
C12_Witness ==
    /\ pc = "range"
    /\ \E a \in AccountsRead :
           /\ Inverted(a)
           /\ \E d \in 0..MaxDay :
                  /\ Walk[LastWalked(a)].date < d
                  /\ d < Walk[FirstWalked(a)].date
                  /\ d \notin DOMAIN TimelineOf(a).days

====
